---- MODULE Spec2Model ----
(***************************************************************************)
(* Post-Newtonian corrections of reboundx (src/gr.c): the explicit         *)
(* two-body corrector rebx_gr, the explicit potential corrector            *)
(* rebx_gr_potential and the implicit N-body corrector rebx_gr_implicit    *)
(* with its buffer pool (struct rebx_params_gr).                           *)
(*                                                                         *)
(* A C double is modelled as an exact rational <<n, d>> (d > 0, lowest     *)
(* terms) or as the single value NonFinite, which stands for any of        *)
(* +inf, -inf and NaN: a division by zero yields it and every operation    *)
(* on it yields it again.  Rounding, overflow and underflow of doubles are *)
(* not modelled.  sqrt is exact: the particle systems below have integer   *)
(* separations.                                                            *)
(***************************************************************************)
EXTENDS Integers, Sequences, FiniteSets, TLC

----------------------------------------------------------------------------
(* double arithmetic *)

NonFinite == <<0, 0>>

IsFinite(a) == a[2] # 0

Abs(n) == IF n < 0 THEN -n ELSE n

RECURSIVE GCD(_, _)
GCD(m, n) == IF n = 0 THEN m ELSE GCD(n, m % n)

\* the rational n/d in lowest terms with a positive denominator; n/0 is not finite
Norm(n, d) ==
    IF d = 0 THEN NonFinite
    ELSE LET g == GCD(Abs(n), Abs(d))
             s == IF d < 0 THEN -1 ELSE 1
         IN  <<s * (n \div g), s * (d \div g)>>

Rat(n) == <<n, 1>>

Frac(n, d) == Norm(n, d)

Add(a, b) ==
    IF ~IsFinite(a) \/ ~IsFinite(b) THEN NonFinite
    ELSE LET g == GCD(a[2], b[2])
         IN  Norm(a[1] * (b[2] \div g) + b[1] * (a[2] \div g), (a[2] \div g) * b[2])

Neg(a) == IF IsFinite(a) THEN <<-a[1], a[2]>> ELSE NonFinite

Sub(a, b) == Add(a, Neg(b))

Mul(a, b) ==
    IF ~IsFinite(a) \/ ~IsFinite(b) THEN NonFinite
    ELSE LET g1 == GCD(Abs(a[1]), b[2])
             g2 == GCD(Abs(b[1]), a[2])
         IN  <<(a[1] \div g1) * (b[1] \div g2), (a[2] \div g2) * (b[2] \div g1)>>

\* x/0 is +-inf or NaN
Div(a, b) ==
    IF ~IsFinite(a) \/ ~IsFinite(b) \/ b[1] = 0 THEN NonFinite
    ELSE Mul(a, IF b[1] < 0 THEN <<-b[2], -b[1]>> ELSE <<b[2], b[1]>>)

a ++ b == Add(a, b)
a -- b == Sub(a, b)
a ** b == Mul(a, b)
a // b == Div(a, b)

\* a > b of two doubles; false when either is NaN
Gt(a, b) == IsFinite(a) /\ IsFinite(b) /\ Sub(a, b)[1] > 0

ISqrt(n) == CHOOSE r \in 0..n : r * r = n

\* sqrt of a non-negative double whose root is a rational
sqrt(a) == IF IsFinite(a) THEN <<ISqrt(a[1]), ISqrt(a[2])>> ELSE NonFinite

RECURSIVE DivPow10(_, _)
DivPow10(n, e) == IF e = 0 \/ n = 0 THEN n ELSE DivPow10(n \div 10, e - 1)

\* a < 10^-e for a finite a >= 0:  n * 10^e < d  iff  n <= (d - 1) div 10^e
LtPow10Neg(a, e) == a[1] <= DivPow10(a[2] - 1, e)

\* isnormal(d): finite, not zero (and not subnormal, which exact rationals of
\* this size never are)
isnormal(a) == IsFinite(a) /\ a[1] # 0

----------------------------------------------------------------------------
(* struct reb_vec3d and struct reb_particle *)

vec3d(x, y, z) == [x |-> x, y |-> y, z |-> z]

Zero3 == vec3d(Rat(0), Rat(0), Rat(0))

NonFinite3 == vec3d(NonFinite, NonFinite, NonFinite)

V3(x, y, z) == vec3d(Rat(x), Rat(y), Rat(z))

particle(pos, vel, m) ==
    [x |-> pos.x, y |-> pos.y, z |-> pos.z,
     vx |-> vel.x, vy |-> vel.y, vz |-> vel.z,
     m |-> m, ax |-> Rat(0), ay |-> Rat(0), az |-> Rat(0)]

acc(p) == vec3d(p.ax, p.ay, p.az)

WithAcc(p, a) == [p EXCEPT !.ax = a.x, !.ay = a.y, !.az = a.z]

----------------------------------------------------------------------------
(* the host simulation: particle systems the host may hold *)

\* most particles a simulation holds (sim->N)
MaxN == 3

\* position of the k-th body on a 3 x 4 rectangle: all separations are 3, 4 or 5
Rect == <<V3(0, 0, 0), V3(3, 0, 0), V3(0, 4, 0), V3(3, 4, 0)>>

\* positions on the x axis
Line == <<V3(0, 0, 0), V3(1, 0, 0), V3(-1, 0, 0), V3(2, 0, 0)>>

\* bodies 0 and 1 coincide
Coincident == <<V3(0, 0, 0), V3(0, 0, 0), V3(0, 4, 0), V3(3, 4, 0)>>

Vel3 == <<V3(0, 0, 0), V3(0, 1, 0), V3(1, 0, -1), V3(0, 0, 1)>>

Rest == <<Zero3, Zero3, Zero3, Zero3>>

VelX == <<V3(0, 0, 0), V3(1, 0, 0), V3(-1, 0, 0), V3(2, 0, 0)>>

\* accelerations the host's gravity routine leaves in the particles before it
\* calls a correction: none, in all directions, along the x axis
Acc0 == <<Zero3, Zero3, Zero3, Zero3>>

Acc3 == <<V3(1, 0, 0), V3(0, -1, 2), V3(1, 1, 0), V3(0, 2, 0)>>

AccX == <<V3(1, 0, 0), V3(-2, 0, 0), V3(3, 0, 0), V3(-1, 0, 0)>>

\* a simulation of at most n particles: G, the speed of light c, the particles
\* (position, velocity, mass) and the accelerations the host computes for them
\* in every step
system(n, g, c, pos, vel, mass, a) ==
    [G |-> Rat(g), c |-> Rat(c), acc |-> a,
     particles |-> [m \in 1..(IF n < MaxN THEN n ELSE MaxN) |->
                        particle(pos[m], vel[m], Rat(mass[m]))]]

Systems ==
    << system(3, 1, 2, Rect, Vel3, <<1, 0, 0, 0>>, Acc0),
       system(4, 1, 2, Rect, Vel3, <<1, 0, 0, 0>>, Acc3),
       system(3, 1, 2, Line, VelX, <<1, 1, 0, 0>>, Acc0),
       system(4, 1, 2, Line, Rest, <<2, 1, 0, 0>>, AccX),
       system(3, 2, 1, Rect, Vel3, <<0, 1, 0, 0>>, Acc3),
       system(2, 1, 2, Coincident, Vel3, <<1, 0, 0, 0>>, Acc3),
       system(1, 1, 2, Rect, Vel3, <<1, 0, 0, 0>>, Acc3) >>

----------------------------------------------------------------------------
VARIABLES
    host,               \* which system the host simulates
    particles,          \* sim->particles, particles[n + 1] is the C particles[n]
    N_var,              \* sim->N_var
    gravity_ignore_10,  \* sim->gravity_ignore_10
    pc,                 \* where control is: "idle" (in the host) or inside a call
    sun,                \* rebx_gr, rebx_gr_potential: the copy of particles[0]
    i,                  \* rebx_gr, rebx_gr_potential: the loop index
    entry,              \* history: the accelerations at the entry of the call
    allocatedN,         \* rebxparams->allocatedN
    a_const,            \* rebxparams->a_const, a_const[n + 1] is the C a_const[n]
    a_newton,           \* rebxparams->a_newton
    a_new,              \* rebxparams->a_new
    a_old,              \* rebxparams->a_old
    null,               \* which of the four pointers are NULL
    swapped,            \* rebx_gr_implicit: the local a_new points to the pool's a_old
    k,                  \* rebx_gr_implicit: the round of the iteration
    rounds,             \* history: maxd of every round this call has executed
    combines,           \* history: how often this call has run the combine step
    maxSeen,            \* history: the largest _N_real rebx_gr_implicit has seen
    entryN,             \* history: allocatedN at the entry of the call
    iterate,            \* history: the array the last pairwise update of this call wrote
    last                \* history: the correction model called last

sim == <<host, particles, N_var, gravity_ignore_10>>

pool == <<allocatedN, a_const, a_newton, a_new, a_old, null>>

locals == <<swapped, k>>

history == <<entry, rounds, combines, maxSeen, entryN, iterate, last>>

vars == <<sim, pc, sun, i, pool, locals, history>>

G == Systems[host].G

C == Systems[host].c

N == Len(particles)

_N_real == N - N_var

\* the C particles[n]
P(n) == particles[n + 1]

accelerations == [n \in 1..N |-> acc(particles[n])]

\* the host has computed the accelerations and set N_var to nv
HostStep(nv) ==
    /\ particles' = [n \in 1..N |-> WithAcc(particles[n], Systems[host].acc[n])]
    /\ N_var' = nv
    /\ entry' = [n \in 1..N |-> Systems[host].acc[n]]

\* the four arrays of the buffer pool
Arrays == {"a_const", "a_newton", "a_new", "a_old"}

Init ==
    /\ host \in 1..Len(Systems)
    /\ particles = Systems[host].particles
    /\ N_var = 0
    /\ gravity_ignore_10 = 0
    /\ pc = "idle"
    /\ sun = particles[1]
    /\ i = 0
    /\ entry = [n \in 1..Len(particles) |-> acc(particles[n])]
    /\ allocatedN = 0
    /\ a_const = <<>>
    /\ a_newton = <<>>
    /\ a_new = <<>>
    /\ a_old = <<>>
    /\ null = Arrays
    /\ swapped = FALSE
    /\ k = 0
    /\ rounds = <<>>
    /\ combines = 0
    /\ maxSeen = 0
    /\ entryN = 0
    /\ iterate = <<>>
    /\ last = "none"

----------------------------------------------------------------------------
(* rebx_gr: the explicit two-body corrector *)

\* lines 65-67: the reaction on particle 0
\* the reaction added to particle 0 instead of subtracted
reaction_plus(p0, massratio, dax, day, daz) ==
    [p0 EXCEPT !.ax = p0.ax ++ (massratio ** dax),
               !.ay = p0.ay ++ (massratio ** day),
               !.az = p0.az ++ (massratio ** daz)]

reaction(p0, massratio, dax, day, daz) ==
    [p0 EXCEPT !.ax = p0.ax -- (massratio ** dax),
               !.ay = p0.ay -- (massratio ** day),
               !.az = p0.az -- (massratio ** daz)]

\* one pass of the loop body for perturber n (lines 43-67)
rebx_gr_body(ps, s, n) ==
    LET p      == ps[n + 1]
        dx     == p.x -- s.x
        dy     == p.y -- s.y
        dz     == p.z -- s.z
        r2     == (dx ** dx) ++ (dy ** dy) ++ (dz ** dz)
        _r     == sqrt(r2)
        dvx    == p.vx -- s.vx
        dvy    == p.vy -- s.vy
        dvz    == p.vz -- s.vz
        alpha  == (G ** s.m) // (_r ** _r ** _r ** C ** C)
        v2     == (dvx ** dvx) ++ (dvy ** dvy) ++ (dvz ** dvz)
        beta   == ((Rat(4) ** G ** s.m) // _r) -- v2
        gamma  == Rat(4) ** ((dvx ** dx) ++ (dvy ** dy) ++ (dvz ** dz))
        dax    == alpha ** ((beta ** dx) ++ (gamma ** dvx))
        day    == alpha ** ((beta ** dy) ++ (gamma ** dvy))
        daz    == alpha ** ((beta ** dz) ++ (gamma ** dvz))
        massratio == p.m // ps[1].m
        ps1    == [ps EXCEPT ![n + 1].ax = ps[n + 1].ax ++ dax,
                             ![n + 1].ay = ps[n + 1].ay ++ day,
                             ![n + 1].az = ps[n + 1].az ++ daz]
    IN  [ps1 EXCEPT ![1] = reaction(ps1[1], massratio, dax, day, daz)]

\* the host calls rebx_gr (lines 34-41)
rebx_gr(nv) ==
    /\ pc = "idle"
    /\ HostStep(nv)
    /\ sun' = particles'[1]
    /\ i' = 1
    /\ pc' = "gr"
    /\ last' = "rebx_gr"
    /\ UNCHANGED <<host, gravity_ignore_10, pool, locals, rounds, combines, maxSeen,
                   entryN, iterate>>

\* for (int i=1; i<_N_real; i++) (line 42)
rebx_gr_loop ==
    /\ pc = "gr"
    /\ i < _N_real
    /\ particles' = rebx_gr_body(particles, sun, i)
    /\ i' = i + 1
    /\ UNCHANGED <<host, N_var, gravity_ignore_10, pc, sun, pool, locals, history>>

rebx_gr_return ==
    /\ pc = "gr"
    /\ ~(i < _N_real)
    /\ pc' = "idle"
    /\ UNCHANGED <<sim, sun, i, pool, locals, history>>

----------------------------------------------------------------------------
(* rebx_gr_potential: the explicit potential corrector *)

\* prefac1 of line 80
potential_prefac1(s) == (Rat(6) ** (G ** s.m) ** (G ** s.m)) // (C ** C)

\* prefac of line 86
\* r2 in place of r2*r2
potential_prefac_r2(prefac1, r2) == prefac1 // r2

potential_prefac(prefac1, r2) == prefac1 // (r2 ** r2)

\* one pass of the loop body for perturber n (lines 82-90)
rebx_gr_potential_body(ps, s, n) ==
    LET p      == ps[n + 1]
        dx     == p.x -- s.x
        dy     == p.y -- s.y
        dz     == p.z -- s.z
        r2     == (dx ** dx) ++ (dy ** dy) ++ (dz ** dz)
        prefac == potential_prefac(potential_prefac1(s), r2)
    IN  [ps EXCEPT ![n + 1].ax = ps[n + 1].ax -- (prefac ** dx),
                   ![n + 1].ay = ps[n + 1].ay -- (prefac ** dy),
                   ![n + 1].az = ps[n + 1].az -- (prefac ** dz)]

\* the host calls rebx_gr_potential (lines 71-80)
rebx_gr_potential(nv) ==
    /\ pc = "idle"
    /\ HostStep(nv)
    /\ sun' = particles'[1]
    /\ i' = 1
    /\ pc' = "gr_potential"
    /\ last' = "rebx_gr_potential"
    /\ UNCHANGED <<host, gravity_ignore_10, pool, locals, rounds, combines, maxSeen,
                   entryN, iterate>>

\* for (int i=1; i<_N_real; i++) (line 81)
rebx_gr_potential_loop ==
    /\ pc = "gr_potential"
    /\ i < _N_real
    /\ particles' = rebx_gr_potential_body(particles, sun, i)
    /\ i' = i + 1
    /\ UNCHANGED <<host, N_var, gravity_ignore_10, pc, sun, pool, locals, history>>

rebx_gr_potential_return ==
    /\ pc = "gr_potential"
    /\ ~(i < _N_real)
    /\ pc' = "idle"
    /\ UNCHANGED <<sim, sun, i, pool, locals, history>>


----------------------------------------------------------------------------
(* rebx_gr_implicit: the implicit N-body corrector *)

\* the iteration's cap on its rounds (line 216)
MaxRounds == 10

\* maxd < 1e-30 (line 267)
ToleranceExponent == 30

\* the order of the four realloc calls (lines 104-107)
ReallocOrder == <<"a_const", "a_newton", "a_new", "a_old">>

\* the outcomes of the four realloc calls: all succeed, or memory runs out at one
\* of them and that request and the later ones, of the same size, return NULL
ReallocFailures == {{ReallocOrder[m] : m \in from..4} : from \in 1..5}

\* what realloc may leave in the entries it adds
Garbage == {Zero3, V3(1, 2, 3), NonFinite3}

\* the pool resized whenever the count differs
grows_any(allocated, nr) == allocated # nr

\* line 103: the pool must grow
grows(allocated, nr) == allocated < nr

\* realloc(arr, n) that succeeds: the old entries, then entries of any content
realloc(arr, n, g) == [j \in 1..n |-> IF j <= Len(arr) THEN arr[j] ELSE g]

\* nothing zeroed
memset_none(arr, n) == arr

\* memset(arr, 0, sizeof(struct reb_vec3d)*n): the entries n-1, ..., 0 zeroed
RECURSIVE memset(_, _)
memset(arr, n) ==
    IF n = 0 THEN arr ELSE memset([arr EXCEPT ![n] = Zero3], n - 1)

\* lines 115-119: a_newton[n] = the acceleration of particle n, for n = from .. nr-1
RECURSIVE newton_copy(_, _, _, _)
newton_copy(ps, nr, newton, n) ==
    IF n >= nr THEN newton
    ELSE newton_copy(ps, nr, [newton EXCEPT ![n + 1] = acc(ps[n + 1])], n + 1)

\* lines 121-137: the direct term between particles 0 and 1
newton_extra(ps, newton) ==
    LET dx == ps[1].x -- ps[2].x
        dy == ps[1].y -- ps[2].y
        dz == ps[1].z -- ps[2].z
        r2 == (dx ** dx) ++ (dy ** dy) ++ (dz ** dz)
        r  == sqrt(r2)
        prefact  == Neg(G) // (r2 ** r)
        prefact0 == prefact ** ps[1].m
        prefact1 == prefact ** ps[2].m
    IN  [newton EXCEPT ![1] = vec3d(prefact1 ** dx, prefact1 ** dy, prefact1 ** dz),
                       ![2] = vec3d(prefact0 ** dx, prefact0 ** dy, prefact0 ** dz)]

\* lines 115-137
newton_snapshot(ps, nr, flag, newton) ==
    LET copied == newton_copy(ps, nr, newton, 0)
    IN  IF flag # 0 /\ nr > 1 THEN newton_extra(ps, copied) ELSE copied

\* 1 / |p - q| (lines 149-154, 157-162)
inv_dist(p, q) ==
    LET dx == p.x -- q.x
        dy == p.y -- q.y
        dz == p.z -- q.z
    IN  Rat(1) // sqrt((dx ** dx) ++ (dy ** dy) ++ (dz ** dz))

\* the sum a1 without the factor 4
RECURSIVE a1_loop_unit(_, _, _, _, _)
a1_loop_unit(ps, nr, n, kk, a1) ==
    IF kk >= nr THEN a1
    ELSE a1_loop_unit(ps, nr, n, kk + 1,
                      IF kk # n
                      THEN a1 ++ (G ** ps[kk + 1].m ** inv_dist(ps[n + 1], ps[kk + 1]))
                      ELSE a1)

\* lines 147-155: the sum a1 of pair (n, j), over kk = from .. nr-1
RECURSIVE a1_loop(_, _, _, _, _)
a1_loop(ps, nr, n, kk, a1) ==
    IF kk >= nr THEN a1
    ELSE a1_loop(ps, nr, n, kk + 1,
                 IF kk # n
                 THEN a1 ++ (Rat(4) ** G ** ps[kk + 1].m ** inv_dist(ps[n + 1], ps[kk + 1]))
                 ELSE a1)

\* lines 147, 156-163: the sum a2 of pair (n, j), over kk = from .. nr-1
RECURSIVE a2_loop(_, _, _, _, _)
a2_loop(ps, nr, j, kk, a2) ==
    IF kk >= nr THEN a2
    ELSE a2_loop(ps, nr, j, kk + 1,
                 IF kk # j
                 THEN a2 ++ (G ** ps[kk + 1].m ** inv_dist(ps[kk + 1], ps[j + 1]))
                 ELSE a2)

\* line 197
factor1(ps, nr, n, j) ==
    LET pi == ps[n + 1]
        pj == ps[j + 1]
        a1 == a1_loop(ps, nr, n, 0, Rat(0))
        a2 == a2_loop(ps, nr, j, 0, Rat(0))
        dxij == pi.x -- pj.x
        dyij == pi.y -- pj.y
        dzij == pi.z -- pj.z
        r2ij == (dxij ** dxij) ++ (dyij ** dyij) ++ (dzij ** dzij)
        vi2  == (pi.vx ** pi.vx) ++ (pi.vy ** pi.vy) ++ (pi.vz ** pi.vz)
        a3   == Neg(vi2)
        vj2  == (pj.vx ** pj.vx) ++ (pj.vy ** pj.vy) ++ (pj.vz ** pj.vz)
        a4   == Rat(-2) ** vj2
        vij2 == (pi.vx ** pj.vx) ++ (pi.vy ** pj.vy) ++ (pi.vz ** pj.vz)
        a5   == Rat(4) ** vij2
        dxijvj == (dxij ** pj.vx) ++ (dyij ** pj.vy) ++ (dzij ** pj.vz)
        a6   == (Frac(3, 2) ** dxijvj ** dxijvj) // r2ij
    IN  a1 ++ a2 ++ a3 ++ a4 ++ a5 ++ a6

\* lines 199-201
factor2(ps, n, j) ==
    LET pi == ps[n + 1]
        pj == ps[j + 1]
    IN     ((pi.x -- pj.x) ** ((Rat(4) ** pi.vx) -- (Rat(3) ** pj.vx)))
        ++ ((pi.y -- pj.y) ** ((Rat(4) ** pi.vy) -- (Rat(3) ** pj.vy)))
        ++ ((pi.z -- pj.z) ** ((Rat(4) ** pi.vz) -- (Rat(3) ** pj.vz)))

\* lines 166-175, 203-207: what pair (n, j) adds to a_const[n]
const_pair(ps, nr, n, j) ==
    LET pi == ps[n + 1]
        pj == ps[j + 1]
        C2i  == Rat(1) // (C ** C)
        dxij == pi.x -- pj.x
        dyij == pi.y -- pj.y
        dzij == pi.z -- pj.z
        r2ij == (dxij ** dxij) ++ (dyij ** dyij) ++ (dzij ** dzij)
        rij  == sqrt(r2ij)
        rij3i == Rat(1) // (r2ij ** rij)
        dvxij == pi.vx -- pj.vx
        dvyij == pi.vy -- pj.vy
        dvzij == pi.vz -- pj.vz
        prefac1 == G ** pj.m ** factor1(ps, nr, n, j) ** rij3i ** C2i
        prefac2 == G ** pj.m ** factor2(ps, n, j) ** rij3i ** C2i
    IN  vec3d((prefac1 ** dxij) ++ (prefac2 ** dvxij),
              (prefac1 ** dyij) ++ (prefac2 ** dvyij),
              (prefac1 ** dzij) ++ (prefac2 ** dvzij))

vadd(u, v) == vec3d(u.x ++ v.x, u.y ++ v.y, u.z ++ v.z)

vsub(u, v) == vec3d(u.x -- v.x, u.y -- v.y, u.z -- v.z)

\* the loop over j without the test j != i
RECURSIVE const_loop_j_all(_, _, _, _, _)
const_loop_j_all(ps, nr, n, j, ac) ==
    IF j >= nr THEN ac
    ELSE const_loop_j_all(ps, nr, n, j + 1, vadd(ac, const_pair(ps, nr, n, j)))

\* lines 143-209: the loop over j for particle n, adding to a_const[n]
RECURSIVE const_loop_j(_, _, _, _, _)
const_loop_j(ps, nr, n, j, ac) ==
    IF j >= nr THEN ac
    ELSE const_loop_j(ps, nr, n, j + 1,
                      IF j # n THEN vadd(ac, const_pair(ps, nr, n, j)) ELSE ac)

\* lines 141-210: the loop over i, for n = from .. nr-1
RECURSIVE const_loop_i(_, _, _, _)
const_loop_i(ps, nr, const, n) ==
    IF n >= nr THEN const
    ELSE const_loop_i(ps, nr,
                      [const EXCEPT ![n + 1] = const_loop_j(ps, nr, n, 0, const[n + 1])], n + 1)

\* lines 140-210: memset, then the loop over i
constant_terms(ps, nr, const) == const_loop_i(ps, nr, memset(const, nr), 0)

\* lines 226-249: pair (n, j) of the pairwise update, adding to a_new[n] and a_new[j]
pair_update(ps, newton, const, old, new, n, j) ==
    LET pi == ps[n + 1]
        pj == ps[j + 1]
        C2i == Rat(1) // (C ** C)
        a_oldi == vadd(vadd(newton[n + 1], const[n + 1]), old[n + 1])
        a_oldj == vadd(vadd(newton[j + 1], const[j + 1]), old[j + 1])
        dxij == pi.x -- pj.x
        dyij == pi.y -- pj.y
        dzij == pi.z -- pj.z
        r2ij == (dxij ** dxij) ++ (dyij ** dyij) ++ (dzij ** dzij)
        rij  == sqrt(r2ij)
        daj  == (dxij ** a_oldj.x) ++ (dyij ** a_oldj.y) ++ (dzij ** a_oldj.z)
        dai  == (dxij ** a_oldi.x) ++ (dyij ** a_oldi.y) ++ (dzij ** a_oldi.z)
        prefac1 == G // (r2ij ** rij ** Rat(2) ** C ** C)
        prefac2 == ((Frac(7, 2) ** C2i) ** G) // rij
        addi == vec3d(pj.m ** ((prefac1 ** daj ** dxij) ++ (prefac2 ** a_oldj.x)),
                      pj.m ** ((prefac1 ** daj ** dyij) ++ (prefac2 ** a_oldj.y)),
                      pj.m ** ((prefac1 ** daj ** dzij) ++ (prefac2 ** a_oldj.z)))
        subj == vec3d(pi.m ** ((prefac1 ** dai ** dxij) ++ (prefac2 ** a_oldi.x)),
                      pi.m ** ((prefac1 ** dai ** dyij) ++ (prefac2 ** a_oldi.y)),
                      pi.m ** ((prefac1 ** dai ** dzij) ++ (prefac2 ** a_oldi.z)))
    IN  [new EXCEPT ![n + 1] = vadd(new[n + 1], addi), ![j + 1] = vsub(new[j + 1], subj)]

\* lines 224-251: the loops over n and j > n
RECURSIVE pairwise_update(_, _, _, _, _, _, _, _)
pairwise_update(ps, nr, newton, const, old, new, n, j) ==
    IF n >= nr THEN new
    ELSE IF j >= nr THEN pairwise_update(ps, nr, newton, const, old, new, n + 1, n + 2)
    ELSE pairwise_update(ps, nr, newton, const, old,
                         pair_update(ps, newton, const, old, new, n, j), n, j + 1)

\* lines 254-266: maxd, over n = from .. nr-1
RECURSIVE maxd_loop(_, _, _, _, _)
maxd_loop(nr, new, old, n, maxd) ==
    IF n >= nr THEN maxd
    ELSE LET dx == new[n + 1].x -- old[n + 1].x
             dy == new[n + 1].y -- old[n + 1].y
             dz == new[n + 1].z -- old[n + 1].z
             x  == new[n + 1].x
             y  == new[n + 1].y
             z  == new[n + 1].z
             d  == ((dx ** dx) ++ (dy ** dy) ++ (dz ** dz))
                   // ((x ** x) ++ (y ** y) ++ (z ** z))
         IN  maxd_loop(nr, new, old, n + 1,
                       IF isnormal(d) /\ Gt(d, maxd) THEN d ELSE maxd)

\* line 267: maxd < 1e-30
\* no early exit
converged_never(maxd) == FALSE

converged(maxd) == LtPow10Neg(maxd, ToleranceExponent)

\* lines 272-276: the loop over i, for n = from .. nr-1
RECURSIVE combine_loop(_, _, _, _, _)
combine_loop(ps, nr, new, const, n) ==
    IF n >= nr THEN ps
    ELSE combine_loop([ps EXCEPT ![n + 1].ax = ps[n + 1].ax ++ (new[n + 1].x ++ const[n + 1].x),
                                 ![n + 1].ay = ps[n + 1].ay ++ (new[n + 1].y ++ const[n + 1].y),
                                 ![n + 1].az = ps[n + 1].az ++ (new[n + 1].z ++ const[n + 1].z)],
                      nr, new, const, n + 1)

\* lines 272-276
\* the constant term added alone
combine_const_only(ps, nr, new, const) == combine_loop(ps, nr, memset(new, nr), const, 0)

combine(ps, nr, new, const) == combine_loop(ps, nr, new, const, 0)

\* lines 216-270: the local a_new the iteration ends with, from round kk on, the
\* local pointers a_new and a_old pointing to the arrays new and old
RECURSIVE iteration(_, _, _, _, _, _, _)
iteration(ps, nr, newton, const, new, old, kk) ==
    IF kk >= MaxRounds THEN new
    ELSE LET new1 == pairwise_update(ps, nr, newton, const, new, memset(old, nr), 0, 1)
         IN  IF converged(maxd_loop(nr, new1, new, 0, Rat(0))) THEN new1
             ELSE iteration(ps, nr, newton, const, new1, new, kk + 1)

\* the pool array the local pointer a_new points to, and the one a_old points to
\* (lines 112-113, swapped at lines 218-220)
NewBuf(sw) == IF sw THEN a_old ELSE a_new

OldBuf(sw) == IF sw THEN a_new ELSE a_old

NewName(sw) == IF sw THEN "a_old" ELSE "a_new"

\* a store through a null pointer: the process is killed
Trap == pc' = "crashed"

\* the host calls rebx_gr_implicit; lines 95-113.  fail: the arrays whose realloc
\* returns NULL, g: the content of the entries a realloc adds
rebx_gr_implicit(nv, flag, fail, g) ==
    /\ pc = "idle"
    /\ HostStep(nv)
    /\ gravity_ignore_10' = flag
    /\ IF grows(allocatedN, N - nv)
       THEN /\ fail # {} => g = Zero3
            /\ a_const'  = IF "a_const" \in fail THEN <<>> ELSE realloc(a_const, N - nv, g)
            /\ a_newton' = IF "a_newton" \in fail THEN <<>> ELSE realloc(a_newton, N - nv, g)
            /\ a_new'    = IF "a_new" \in fail THEN <<>> ELSE realloc(a_new, N - nv, g)
            /\ a_old'    = IF "a_old" \in fail THEN <<>> ELSE realloc(a_old, N - nv, g)
            /\ null' = fail
            /\ allocatedN' = N - nv
       ELSE /\ fail = {}
            /\ g = Zero3
            /\ UNCHANGED pool
    /\ swapped' = FALSE
    /\ k' = 0
    /\ rounds' = <<>>
    /\ combines' = 0
    /\ maxSeen' = IF N - nv > maxSeen THEN N - nv ELSE maxSeen
    /\ entryN' = allocatedN
    /\ iterate' = <<>>
    /\ last' = "rebx_gr_implicit"
    /\ pc' = "implicit_newton"
    /\ UNCHANGED <<host, sun, i>>

\* lines 115-137
implicit_newton ==
    /\ pc = "implicit_newton"
    /\ IF "a_newton" \in null
       THEN Trap /\ UNCHANGED a_newton
       ELSE /\ a_newton' = newton_snapshot(particles, _N_real, gravity_ignore_10, a_newton)
            /\ pc' = "implicit_const"
    /\ UNCHANGED <<sim, sun, i, allocatedN, a_const, a_new, a_old, null, locals, history>>

\* lines 140-213
implicit_const ==
    /\ pc = "implicit_const"
    /\ IF "a_const" \in null
       THEN Trap /\ UNCHANGED <<a_const, a_new>>
       ELSE /\ a_const' = constant_terms(particles, _N_real, a_const)
            /\ IF "a_new" \in null
               THEN Trap /\ UNCHANGED a_new
               ELSE a_new' = memset(a_new, _N_real) /\ pc' = "implicit_swap"
    /\ UNCHANGED <<sim, sun, i, allocatedN, a_newton, a_old, null, locals, history>>

\* lines 216-222
implicit_swap ==
    /\ pc = "implicit_swap"
    /\ k < MaxRounds
    /\ swapped' = ~swapped
    /\ IF NewName(~swapped) \in null
       THEN Trap /\ UNCHANGED <<a_new, a_old>>
       ELSE /\ a_new' = IF ~swapped THEN a_new ELSE memset(a_new, _N_real)
            /\ a_old' = IF ~swapped THEN memset(a_old, _N_real) ELSE a_old
            /\ pc' = "implicit_pairs"
    /\ UNCHANGED <<sim, sun, i, allocatedN, a_const, a_newton, null, k, history>>

\* lines 224-251
implicit_pairs ==
    /\ pc = "implicit_pairs"
    /\ LET new == pairwise_update(particles, _N_real, a_newton, a_const,
                                  OldBuf(swapped), NewBuf(swapped), 0, 1)
       IN  /\ a_new' = IF swapped THEN a_new ELSE new
           /\ a_old' = IF swapped THEN new ELSE a_old
           /\ iterate' = new
    /\ pc' = "implicit_check"
    /\ UNCHANGED <<sim, sun, i, allocatedN, a_const, a_newton, null, locals,
                   entry, rounds, combines, maxSeen, entryN, last>>

\* lines 254-270
implicit_check ==
    /\ pc = "implicit_check"
    /\ LET maxd == maxd_loop(_N_real, NewBuf(swapped), OldBuf(swapped), 0, Rat(0))
           conv == converged(maxd)
       IN  /\ rounds' = Append(rounds, maxd)
           /\ k' = IF conv THEN k ELSE k + 1
           /\ pc' = IF ~conv /\ k + 1 < MaxRounds THEN "implicit_swap" ELSE "implicit_combine"
    /\ UNCHANGED <<sim, sun, i, pool, swapped, entry, combines, maxSeen, entryN,
                   iterate, last>>

\* lines 272-277
implicit_combine ==
    /\ pc = "implicit_combine"
    /\ particles' = combine(particles, _N_real, NewBuf(swapped), a_const)
    /\ combines' = combines + 1
    /\ pc' = "idle"
    /\ UNCHANGED <<host, N_var, gravity_ignore_10, sun, i, pool, locals,
                   entry, rounds, maxSeen, entryN, iterate, last>>

----------------------------------------------------------------------------
Next ==
    \/ \E nv \in 0..(N - 1) : rebx_gr(nv)
    \/ rebx_gr_loop
    \/ rebx_gr_return
    \/ \E nv \in 0..(N - 1) : rebx_gr_potential(nv)
    \/ rebx_gr_potential_loop
    \/ rebx_gr_potential_return
    \/ \E nv \in 0..(N - 1), flag \in {0, 1},
          fail \in ReallocFailures, g \in Garbage :
            rebx_gr_implicit(nv, flag, fail, g)
    \/ implicit_newton
    \/ implicit_const
    \/ implicit_swap
    \/ implicit_pairs
    \/ implicit_check
    \/ implicit_combine

Spec == Init /\ [][Next]_vars

\* the positions of a call of rebx_gr_implicit between its entry and its return
ImplicitPcs ==
    {"implicit_newton", "implicit_const", "implicit_swap", "implicit_pairs",
     "implicit_check", "implicit_combine"}

\* a call runs to its end: rebx_gr_implicit is synchronous code, so control
\* leaves every position of the call (lines 115-277)
InCall ==
    /\ pc \in ImplicitPcs
    /\ pc' \in (ImplicitPcs \cup {"idle", "crashed"}) \ {pc}

FairSpec == Spec /\ WF_pc(InCall)

----------------------------------------------------------------------------
(* Properties *)

pos(p) == vec3d(p.x, p.y, p.z)

vel(p) == vec3d(p.vx, p.vy, p.vz)

scale(a, v) == vec3d(a ** v.x, a ** v.y, a ** v.z)

dot(u, v) == (u.x ** v.x) ++ (u.y ** v.y) ++ (u.z ** v.z)

\* |u|
len(u) == sqrt(dot(u, u))

AfterImplicit == pc = "idle" /\ last = "rebx_gr_implicit"

\* C1: the pool's capacity is the largest _N_real that rebx_gr_implicit has been
\* called with so far (0 before the first call); so after a call it is at least
\* the call's _N_real, and it never shrinks.
C1_CapacityIsMaxSeen ==
    /\ allocatedN = maxSeen
    /\ last = "rebx_gr_implicit" => allocatedN >= _N_real

\* a call with fewer real particles than the pool holds has returned
C1_Witness ==
    /\ AfterImplicit
    /\ combines = 1
    /\ _N_real < allocatedN
    /\ entryN = allocatedN

\* the particles with the accelerations of the first n as they were at the entry
\* of the call
RECURSIVE AtEntry(_)
AtEntry(n) ==
    IF n = 0 THEN particles
    ELSE [AtEntry(n - 1) EXCEPT ![n] = WithAcc(particles[n], entry[n])]

EntryParticles == AtEntry(N)

\* n entries g
RECURSIVE Filled(_, _)
Filled(n, g) == IF n = 0 THEN <<>> ELSE Append(Filled(n - 1, g), g)

\* a pool of capacity n whose four arrays hold g everywhere
FilledPool(n, g) ==
    LET arr == Filled(n, g)
    IN  [a_const |-> arr, a_newton |-> arr, a_new |-> arr, a_old |-> arr]

\* C2: the accelerations a call of rebx_gr_implicit leaves are those the same call
\* leaves on a fresh zeroed pool of capacity _N_real and on a pool of the largest
\* capacity filled with any content: the correction does not depend on the
\* pool's capacity or contents.
C2_PoolIndependence ==
    AfterImplicit =>
        \A pl \in {FilledPool(_N_real, Zero3)} \cup {FilledPool(MaxN, g) : g \in Garbage \ {Zero3}} :
          \A newton \in {newton_snapshot(EntryParticles, _N_real, gravity_ignore_10,
                                         pl.a_newton)} :
            \A const \in {constant_terms(EntryParticles, _N_real, pl.a_const)} :
              \A new \in {iteration(EntryParticles, _N_real, newton, const,
                                    memset(pl.a_new, _N_real), pl.a_old, 0)} :
                combine(EntryParticles, _N_real, new, const) = particles

C2_Witness ==
    /\ AfterImplicit
    /\ entryN > _N_real
    /\ a_const[allocatedN] # Zero3
    /\ a_newton[allocatedN] # Zero3
    /\ accelerations # entry

Tiny(maxd) == LtPow10Neg(maxd, ToleranceExponent)

\* the iteration is over: the combine step is about to run or has run
IterationOver == pc = "implicit_combine" \/ AfterImplicit

\* what holds of the rounds in every state
C3_Rounds ==
    /\ combines <= 1
    /\ AfterImplicit => combines = 1
    /\ pc \in ImplicitPcs => combines = 0
    /\ pc \in {"implicit_swap", "implicit_pairs"} =>
          /\ Len(rounds) = k
          /\ k < MaxRounds
          /\ \A r \in 1..Len(rounds) : ~Tiny(rounds[r])
    /\ IterationOver =>
          /\ Len(rounds) \in 1..MaxRounds
          /\ \A r \in 1..(Len(rounds) - 1) : ~Tiny(rounds[r])
          /\ Tiny(rounds[Len(rounds)]) \/ Len(rounds) = MaxRounds

\* C3: a call of rebx_gr_implicit whose arrays were obtained ends; it executes
\* between 1 and 10 rounds, in order, stops after the first round whose maxd is
\* below 1e-30 or after the 10th, and then runs the combine step exactly once.
C3_Terminates ==
    /\ []C3_Rounds
    /\ (pc = "implicit_newton" /\ null = {}) ~> (AfterImplicit /\ combines = 1)

\* the iteration has ended at the cap without converging
C3_Witness ==
    /\ AfterImplicit
    /\ combines = 1
    /\ Len(rounds) = MaxRounds
    /\ ~Tiny(rounds[MaxRounds])

\* C4: when a realloc of the growth step returns NULL the call stops there:
\* allocatedN keeps its value, the process is dead and no acceleration has changed.
C4_FatalAtGrowth ==
    (last = "rebx_gr_implicit" /\ null # {}) =>
        /\ pc = "crashed"
        /\ allocatedN = entryN
        /\ accelerations = entry

\* m_0*da_0 + ... + m_(n-1)*da_(n-1), da the change of the acceleration since entry
RECURSIVE WeightedChange(_)
WeightedChange(n) ==
    IF n = 0 THEN Zero3
    ELSE vadd(WeightedChange(n - 1),
              scale(particles[n].m, vsub(acc(particles[n]), entry[n])))

\* C5 as claimed: during and after a call of rebx_gr the mass-weighted changes of
\* the accelerations sum to zero, for any masses and positions.
C5_WeightedChangeIsZero == last = "rebx_gr" => WeightedChange(N) = Zero3

\* C5: during and after a call of rebx_gr the mass-weighted changes of the
\* accelerations sum to zero, when particle 0 has a mass other than zero and no
\* perturber is at the position of particle 0.
C5_WeightedChangeIsZeroIfFinite ==
    (/\ last = "rebx_gr"
     /\ P(0).m # Rat(0)
     /\ \A n \in 1..(_N_real - 1) : pos(P(n)) # pos(P(0)))
    => WeightedChange(N) = Zero3

\* rebx_gr has returned after changing particle 0 and a perturber with a mass
C5_Witness ==
    /\ pc = "idle"
    /\ last = "rebx_gr"
    /\ _N_real = N
    /\ N >= 3
    /\ P(0).m # Rat(0)
    /\ P(1).m # Rat(0)
    /\ acc(P(0)) # entry[1]
    /\ acc(P(1)) # entry[2]
    /\ acc(P(2)) # entry[3]

\* C6: while _N_real is 1 no correction model changes an acceleration.
C6_SingleBodyUnchanged == _N_real = 1 => accelerations = entry

\* rebx_gr_implicit has returned from a call with one real particle among
\* several, the flag set, on a pool that held more
C6_Witness ==
    /\ AfterImplicit
    /\ combines = 1
    /\ _N_real = 1
    /\ N > 1
    /\ gravity_ignore_10 = 1
    /\ entryN > 1
    /\ entry[1] # Zero3

\* C7: rebx_gr_potential leaves particle 0 alone; a perturber n it has processed
\* has lost 6*(G*m_0)^2/(C^2*r^4) times its separation from particle 0, r the
\* length of the separation, and the other particles are as at entry.
C7_PotentialEffect ==
    last = "rebx_gr_potential" =>
        /\ acc(P(0)) = entry[1]
        /\ \A n \in 1..(N - 1) :
              LET dr == vsub(pos(P(n)), pos(P(0)))
                  r  == len(dr)
                  prefac == (Rat(6) ** (G ** P(0).m) ** (G ** P(0).m))
                            // (C ** C ** r ** r ** r ** r)
              IN  acc(P(n)) = IF n < i /\ n < _N_real
                              THEN vsub(entry[n + 1], scale(prefac, dr))
                              ELSE entry[n + 1]

\* rebx_gr_potential has returned after changing two perturbers
C7_Witness ==
    /\ pc = "idle"
    /\ last = "rebx_gr_potential"
    /\ _N_real >= 3
    /\ IsFinite(P(1).ax)
    /\ acc(P(1)) # entry[2]
    /\ acc(P(2)) # entry[3]

\* -G*m_other*(r_n - r_other)/r^3: the Newtonian acceleration of particle n, 0 or
\* 1, by the other of the two
MutualTerm(n) ==
    LET dr == vsub(pos(P(n)), pos(P(1 - n)))
        r  == len(dr)
    IN  scale(Neg(G ** P(1 - n).m) // (r ** r ** r), dr)

\* C8: after the snapshot step a_newton[n] is the acceleration particle n had at
\* entry, for particles 0 and 1 plus their mutual Newtonian term when
\* gravity_ignore_10 is set and _N_real > 1.
C8_SnapshotFoldsMutualTerm ==
    pc = "implicit_const" =>
        \A n \in 0..(_N_real - 1) :
            a_newton[n + 1] = IF gravity_ignore_10 # 0 /\ _N_real > 1 /\ n <= 1
                              THEN vadd(entry[n + 1], MutualTerm(n))
                              ELSE entry[n + 1]

\* the sum of G*m_k/|r_n - r_k| over the real particles k < kk other than n
RECURSIVE PotentialSum(_, _)
PotentialSum(n, kk) ==
    IF kk = 0 THEN Rat(0)
    ELSE IF kk - 1 = n THEN PotentialSum(n, kk - 1)
    ELSE PotentialSum(n, kk - 1)
         ++ ((G ** P(kk - 1).m) // len(vsub(pos(P(n)), pos(P(kk - 1)))))

\* the term of pair (n, j) of the constant term of particle n, the sum a1
\* entering factor1 with coefficient w
ConstantPair(n, j, w) ==
    LET dr  == vsub(pos(P(n)), pos(P(j)))
        dv  == vsub(vel(P(n)), vel(P(j)))
        r   == len(dr)
        proj == (dot(dr, vel(P(j))) ** dot(dr, vel(P(j)))) // (r ** r)
        f1  == (w ** PotentialSum(n, _N_real)) ++ PotentialSum(j, _N_real)
               ++ Neg(dot(vel(P(n)), vel(P(n))))
               ++ Neg(Rat(2) ** dot(vel(P(j)), vel(P(j))))
               ++ (Rat(4) ** dot(vel(P(n)), vel(P(j))))
               ++ (Frac(3, 2) ** proj)
        f2  == dot(dr, vsub(scale(Rat(4), vel(P(n))), scale(Rat(3), vel(P(j)))))
        pre == (G ** P(j).m) // (C ** C ** r ** r ** r)
    IN  scale(pre, vadd(scale(f1, dr), scale(f2, dv)))

\* the sum of ConstantPair(n, j, w) over the real particles j < jj other than n
RECURSIVE ConstantSum(_, _, _)
ConstantSum(n, jj, w) ==
    IF jj = 0 THEN Zero3
    ELSE IF jj - 1 = n THEN ConstantSum(n, jj - 1, w)
    ELSE vadd(ConstantSum(n, jj - 1, w), ConstantPair(n, jj - 1, w))

\* the constant-term step of the call has just ended
ConstantComputed == pc = "implicit_swap" /\ rounds = <<>>

\* C9 as claimed: a_const[n] is the sum over j # n of
\* G*m_j/(C^2*r^3) * (factor1*dr + factor2*dv) with
\* factor1 = a1 + a2 - vi2 - 2*vj2 + 4*vij + 1.5*projection, a1 the plain sum of
\* G*m_k/r_nk over k # n.
C9_ConstantTermUnitA1 ==
    ConstantComputed =>
        \A n \in 0..(_N_real - 1) : a_const[n + 1] = ConstantSum(n, _N_real, Rat(1))

\* C9: the same with a1 entering factor1 four times:
\* factor1 = 4*a1 + a2 - vi2 - 2*vj2 + 4*vij + 1.5*projection.
C9_ConstantTermFourA1 ==
    ConstantComputed =>
        \A n \in 0..(_N_real - 1) : a_const[n + 1] = ConstantSum(n, _N_real, Rat(4))

\* the constant terms of three real particles are computed, the one of a moving
\* particle in the potential of another is finite and not zero
C9_Witness ==
    /\ ConstantComputed
    /\ _N_real >= 3
    /\ IsFinite(a_const[2].x)
    /\ a_const[2] # Zero3
    /\ vel(P(1)) # Zero3
    /\ PotentialSum(1, _N_real) # Rat(0)

\* C10: after a call of rebx_gr_implicit the acceleration of a real particle is
\* its acceleration at entry plus its constant term plus its entry of the array
\* the last executed round wrote; the Newtonian snapshot is not added.
C10_CombineAddsConstAndIterate ==
    AfterImplicit =>
        \A n \in 1..N :
            acc(particles[n]) = IF n <= _N_real
                                THEN vadd(entry[n], vadd(a_const[n], iterate[n]))
                                ELSE entry[n]

\* a call with the flag set has returned after several rounds, the snapshot of
\* particle 1 not its acceleration at entry, the last iterate not zero and not
\* the iterate of the round before
C10_Witness ==
    /\ AfterImplicit
    /\ combines = 1
    /\ gravity_ignore_10 = 1
    /\ _N_real >= 2
    /\ Len(rounds) > 2
    /\ a_newton[2] # entry[2]
    /\ IsFinite(iterate[1].x)
    /\ iterate[1] # Zero3
    /\ iterate[1] # OldBuf(swapped)[1]

====
